---- MODULE Spec2Model ----
(***************************************************************************)
(* github-secrets-manager-rs: reconciliation of a desired list of secrets  *)
(* against the secrets of a GitHub repository.                             *)
(*                                                                         *)
(* The repository holds two implementations of one run:                    *)
(*   impl = "main"    : the monolithic `main` of src/src/main.rs           *)
(*   impl = "manager" : SecretsManager (src/src/secrets_manager.rs) over   *)
(*                      GitHubClient (src/src/github_client.rs)            *)
(* Strings that are encoded, sealed or sent are sequences of bytes (ASCII  *)
(* codes); names are TLA+ strings compared with exact equality.            *)
(***************************************************************************)
EXTENDS Integers, Sequences, FiniteSets, TLC

\* ---------------------------------------------------------------- bounds
MaxDesired == 2
MaxExisting == 2

\* ------------------------------------------------------ program constants
\* box_::PUBLICKEYBYTES: the length box_::PublicKey::from_slice requires
PUBLICKEYBYTES == 32
\* box_::MACBYTES: the authenticator sealedbox::seal puts before the ciphertext
MACBYTES == 16

\* ------------------------------------------------------------ input sets
Names == {"A", "a", "B"}
\* the entries GITHUB_SECRETS may hold: names with the plaintext values "1" and
\* "23", the name "A" with either value
DesiredEntries ==
    { [name |-> "A", value |-> <<49>>, status |-> "None"],
      [name |-> "A", value |-> <<50, 51>>, status |-> "None"],
      [name |-> "a", value |-> <<50, 51>>, status |-> "None"],
      [name |-> "B", value |-> <<49>>, status |-> "None"] }
\* the state of the random generator sealedbox::seal draws its ephemeral key
\* from: one of these when the run starts, stepped by every draw
EphSeeds == {7, 9}
NextRandom(r) == (r * 5 + 3) % 256
\* what one HTTP round trip can give: a 2xx status, another status, or an
\* error of send() itself
Responses == {"2xx", "non2xx", "transport"}

RECURSIVE SeqsUpTo(_, _)
SeqsUpTo(S, n) ==
    IF n = 0 THEN {<<>>}
    ELSE LET shorter == SeqsUpTo(S, n - 1)
         IN  shorter \cup {Append(q, x) : q \in {r \in shorter : Len(r) = n - 1}, x \in S}

Range(q) == {q[i] : i \in 1..Len(q)}

\* --------------------------------------------------------------- base64
\* general_purpose::STANDARD: alphabet A-Za-z0-9+/ with '=' padding
PadChar == 61

B64Char(i) ==
    IF i < 26 THEN 65 + i
    ELSE IF i < 52 THEN 97 + (i - 26)
    ELSE IF i < 62 THEN 48 + (i - 52)
    ELSE IF i = 62 THEN 43
    ELSE 47

\* the 6-bit value of a symbol, -1 when it is not in the alphabet
B64Value(c) ==
    IF c >= 65 /\ c <= 90 THEN c - 65
    ELSE IF c >= 97 /\ c <= 122 THEN c - 97 + 26
    ELSE IF c >= 48 /\ c <= 57 THEN c - 48 + 52
    ELSE IF c = 43 THEN 62
    ELSE IF c = 47 THEN 63
    ELSE -1

\* the symbols for the bytes from position i on, three bytes to four symbols
RECURSIVE EncodeFrom(_, _)
EncodeFrom(bytes, i) ==
    LET n == Len(bytes) - i + 1
    IN  IF n <= 0 THEN <<>>
        ELSE IF n = 1 THEN
            << B64Char(bytes[i] \div 4), B64Char((bytes[i] % 4) * 16), PadChar, PadChar >>
        ELSE IF n = 2 THEN
            << B64Char(bytes[i] \div 4),
               B64Char((bytes[i] % 4) * 16 + bytes[i + 1] \div 16),
               B64Char((bytes[i + 1] % 16) * 4),
               PadChar >>
        ELSE
            << B64Char(bytes[i] \div 4),
               B64Char((bytes[i] % 4) * 16 + bytes[i + 1] \div 16),
               B64Char((bytes[i + 1] % 16) * 4 + bytes[i + 2] \div 64),
               B64Char(bytes[i + 2] % 64) >>
            \o EncodeFrom(bytes, i + 3)

Base64Encode(bytes) == EncodeFrom(bytes, 1)

\* the group of four symbols at position i; last = it is the final group,
\* where padding may be
DecodeQuad(s, i, last) ==
    LET v1 == B64Value(s[i])
        v2 == B64Value(s[i + 1])
        v3 == B64Value(s[i + 2])
        v4 == B64Value(s[i + 3])
    IN  IF v1 < 0 \/ v2 < 0 THEN [ok |-> FALSE, bytes |-> <<>>]
        ELSE IF last /\ s[i + 2] = PadChar /\ s[i + 3] = PadChar THEN
            IF v2 % 16 # 0 THEN [ok |-> FALSE, bytes |-> <<>>]
            ELSE [ok |-> TRUE, bytes |-> << v1 * 4 + v2 \div 16 >>]
        ELSE IF last /\ s[i + 3] = PadChar THEN
            IF v3 < 0 \/ v3 % 4 # 0 THEN [ok |-> FALSE, bytes |-> <<>>]
            ELSE [ok |-> TRUE,
                  bytes |-> << v1 * 4 + v2 \div 16, (v2 % 16) * 16 + v3 \div 4 >>]
        ELSE IF v3 < 0 \/ v4 < 0 THEN [ok |-> FALSE, bytes |-> <<>>]
        ELSE [ok |-> TRUE,
              bytes |-> << v1 * 4 + v2 \div 16,
                           (v2 % 16) * 16 + v3 \div 4,
                           (v3 % 4) * 64 + v4 >>]

RECURSIVE DecodeFrom(_, _)
DecodeFrom(s, i) ==
    LET n == Len(s) - i + 1
    IN  IF n <= 0 THEN [ok |-> TRUE, bytes |-> <<>>]
        ELSE IF n < 4 THEN [ok |-> FALSE, bytes |-> <<>>]
        ELSE LET head == DecodeQuad(s, i, n = 4)
             IN  IF ~head.ok THEN head
                 ELSE LET rest == DecodeFrom(s, i + 4)
                      IN  IF rest.ok
                          THEN [ok |-> TRUE, bytes |-> head.bytes \o rest.bytes]
                          ELSE rest

Base64Decode(s) == DecodeFrom(s, 1)

\* ---------------------------------------------------------- sealed box
RECURSIVE SumFrom(_, _)
SumFrom(q, i) == IF i > Len(q) THEN 0 ELSE q[i] + SumFrom(q, i + 1)
SumBytes(q) == SumFrom(q, 1)

\* sealedbox::seal(m, pk): ephemeral public key || authenticator || ciphertext.
\* The cipher itself is the library's; here a keyed byte-wise substitution
\* stands for it, with the layout and the lengths of the real one.
Seal(m, recipient, eph) ==
    LET tag == SumBytes(m) + SumBytes(recipient) + eph
    IN  [i \in 1..PUBLICKEYBYTES |-> eph]
        \o [i \in 1..MACBYTES |-> (tag + i) % 256]
        \o [i \in 1..Len(m) |->
               (m[i] + recipient[((i - 1) % Len(recipient)) + 1] + eph) % 256]

\* faulty variant: the value is encoded without being sealed
EncryptedValueUnsealed(value, recipient, eph) == Base64Encode(value)
\* what is sent for a secret: the sealed box of its value, base64-encoded
EncryptedValue(value, recipient, eph) == Base64Encode(Seal(value, recipient, eph))

\* ------------------------------------------------------ the public key
KeyOf(n, b) == Base64Encode([i \in 1..n |-> b])

\* what the public-key endpoint may return: a well-formed key, keys of the
\* wrong length, and a text that is not base64
ValidKey == [key_id |-> "kid-32", key |-> KeyOf(32, 11)]

KeyCandidates ==
    { ValidKey,
      [key_id |-> "kid-0",  key |-> KeyOf(0, 11)],
      [key_id |-> "kid-16", key |-> KeyOf(16, 11)],
      [key_id |-> "kid-33", key |-> KeyOf(33, 11)],
      [key_id |-> "kid-bad", key |-> <<33, 33, 33>>] }

NoKey == [key_id |-> "", key |-> <<>>]

\* faulty variant: only a key that is too short is refused
decode_public_key_min_length(key) ==
    LET d == Base64Decode(key)
    IN  IF ~d.ok THEN [tag |-> "Err", pk |-> <<>>]
        ELSE IF Len(d.bytes) < PUBLICKEYBYTES THEN [tag |-> "Panic", pk |-> <<>>]
        ELSE [tag |-> "Ok", pk |-> d.bytes]

\* decode_public_key: the base64 text of the key to a box_::PublicKey.
\* `?` on the decode gives Err; unwrap() on from_slice panics unless the
\* decoded bytes are exactly PUBLICKEYBYTES long.
decode_public_key(key) ==
    LET d == Base64Decode(key)
    IN  IF ~d.ok THEN [tag |-> "Err", pk |-> <<>>]
        ELSE IF Len(d.bytes) # PUBLICKEYBYTES THEN [tag |-> "Panic", pk |-> <<>>]
        ELSE [tag |-> "Ok", pk |-> d.bytes]

\* -------------------------------------------------------- reconciliation
\* faulty variant: names compared without regard to case
LowerCase(n) == IF n = "A" THEN "a" ELSE IF n = "B" THEN "b" ELSE n
NameEqIgnoreCase(a, b) == LowerCase(a) = LowerCase(b)
\* String equality of two names
NameEq(a, b) == a = b

InExisting(name, existing) == \E j \in 1..Len(existing) : NameEq(existing[j].name, name)
InSecrets(name, list) == \E j \in 1..Len(list) : NameEq(list[j].name, name)

NamesOf(list) == [i \in 1..Len(list) |-> list[i].name]

\* main: the two loops that fill new_secrets, updated_secrets, secrets_to_delete
MainNewSecrets(list, existing) ==
    SelectSeq(list, LAMBDA s : ~InExisting(s.name, existing))
MainUpdatedSecrets(list, existing) ==
    SelectSeq(list, LAMBDA s : InExisting(s.name, existing))
\* faulty variant: the negation of the membership test is lost
MainSecretsToDeleteNoNegation(list, existing) ==
    NamesOf(SelectSeq(existing, LAMBDA e : InSecrets(e.name, list)))
MainSecretsToDelete(list, existing) ==
    NamesOf(SelectSeq(existing, LAMBDA e : ~InSecrets(e.name, list)))

\* SecretsManager::update_secret_statuses, first loop: a status for every secret
MarkStatuses(list, existing) ==
    [i \in 1..Len(list) |->
        [list[i] EXCEPT !.status =
            IF InExisting(list[i].name, existing) THEN "Existing" ELSE "New"]]

\* ... second loop: one Deleted entry pushed for every existing secret whose
\* name is not (yet) in the list, the entries pushed so far included
RECURSIVE AddDeleted(_, _, _)
AddDeleted(list, existing, j) ==
    IF j > Len(existing) THEN list
    ELSE IF ~InSecrets(existing[j].name, list)
         THEN AddDeleted(Append(list, [name |-> existing[j].name,
                                       value |-> <<>>,
                                       status |-> "Deleted"]),
                         existing, j + 1)
         ELSE AddDeleted(list, existing, j + 1)

update_secret_statuses(list, existing) ==
    AddDeleted(MarkStatuses(list, existing), existing, 1)

\* "N/A".to_string(): the marker for a timestamp that is not available
NotAvailable == "N/A"
\* "Unknown (Deleted)".to_string(), as bytes like every secret value
Redacted == << 85, 110, 107, 110, 111, 119, 110, 32, 40, 68, 101, 108, 101, 116, 101, 100, 41 >>

\* self.existing_secrets.iter().find(|s| s.name == secret.name): the first match
FindExisting(existing, name) ==
    LET hits == {j \in 1..Len(existing) : NameEq(existing[j].name, name)}
    IN  IF hits = {} THEN [tag |-> "None"]
        ELSE [tag |-> "Some",
              s |-> existing[CHOOSE j \in hits : \A k \in hits : j <= k]]

\* faulty variant: the value of a deleted secret is shown like any other
get_secret_details_unredacted(list, existing, index) ==
    IF index >= Len(list) THEN [tag |-> "None", index |-> index]
    ELSE LET secret == list[index + 1]
             found == FindExisting(existing, secret.name)
         IN  IF secret.status = "None" THEN [tag |-> "Panic", index |-> index]
             ELSE [tag |-> "Some", index |-> index,
                   name |-> secret.name,
                   value |-> secret.value,
                   created_at |-> IF found.tag = "None" THEN NotAvailable
                                  ELSE found.s.created_at,
                   updated_at |-> IF found.tag = "None" THEN NotAvailable
                                  ELSE found.s.updated_at,
                   status |-> secret.status]

\* SecretsManager::get_secret_details(index), index counted from 0:
\* None beyond the list, a panic (expect) on a secret without status
get_secret_details(list, existing, index) ==
    IF index >= Len(list) THEN [tag |-> "None", index |-> index]
    ELSE LET secret == list[index + 1]
             found == FindExisting(existing, secret.name)
         IN  IF secret.status = "None" THEN [tag |-> "Panic", index |-> index]
             ELSE [tag |-> "Some", index |-> index,
                   name |-> secret.name,
                   value |-> IF secret.status = "Deleted" THEN Redacted
                             ELSE secret.value,
                   created_at |-> IF found.tag = "None" THEN NotAvailable
                                  ELSE found.s.created_at,
                   updated_at |-> IF found.tag = "None" THEN NotAvailable
                                  ELSE found.s.updated_at,
                   status |-> secret.status]

\* SecretsManager::categorize_secrets: split by status
categorize_secrets(list) ==
    [new_secrets |-> SelectSeq(list, LAMBDA s : s.status = "New"),
     updated_secrets |-> SelectSeq(list, LAMBDA s : s.status = "Existing"),
     secrets_to_delete |-> NamesOf(SelectSeq(list, LAMBDA s : s.status = "Deleted"))]

\* faulty variant: the new secrets are left out of the loop
UpsertOrderUpdatedOnly(new, updated) == updated
\* faulty variant: the chain the other way round
UpsertOrderUpdatesFirst(new, updated) == updated \o new
\* new_secrets.iter().chain(updated_secrets.iter())
UpsertOrder(new, updated) == new \o updated

\* ---------------------------------------------------------------- state
VARIABLES
    impl,               \* which implementation runs: "main" or "manager"
    config_secrets,     \* the desired secrets read from GITHUB_SECRETS
    rng,                \* state of the random generator behind sealedbox::seal
    store,              \* the names present in the remote store
    pc,                 \* position of the run
    public_key,         \* PublicKeyResponse {key_id, key}
    pk,                 \* the decoded box_::PublicKey
    existing_secrets,   \* Vec<ExistingSecret>
    secrets,            \* the secret list of the run (with status in the manager)
    new_secrets, updated_secrets, secrets_to_delete,
    idx,                \* position in the loop over upserts / deletes
    calls,              \* the PUT and DELETE requests sent so far
    printed,            \* per-secret result lines written to stdout
    reconciled,         \* the categories have been computed
    fetch_failed,       \* which GET failed, if one did: "public_key", "existing_secrets"
    outcome,            \* "running", or how the run ended: "Ok", "Err", "Panic"
    external,           \* names somebody else removed from the store after the snapshot
    viewer,             \* the Tui: "off", "running" (inside Tui::run), "returned"
    selected_index,     \* Tui.selected_index
    app_state,          \* Tui.app_state: "ListView" or "DetailsView"
    confirmation_dialog, \* Tui.confirmation_dialog: "None" or "Some"
    status_message,     \* Tui.status_message: "None" or "Some"
    details             \* result of the last get_secret_details call

vars == << impl, config_secrets, rng, store, pc, public_key, pk,
           existing_secrets, secrets, new_secrets, updated_secrets,
           secrets_to_delete, idx, calls, printed, reconciled, fetch_failed,
           outcome, external, viewer, selected_index, app_state,
           confirmation_dialog, status_message, details >>

DesiredLists == SeqsUpTo(DesiredEntries, MaxDesired)
ExistingLists == SeqsUpTo({[name |-> n] : n \in Names}, MaxExisting)

Init ==
    /\ impl \in {"main", "manager"}
    /\ config_secrets \in DesiredLists
    /\ rng \in EphSeeds
    /\ store \in SUBSET Names
    /\ pc = "fetch_key"
    /\ public_key = NoKey
    /\ pk = <<>>
    /\ existing_secrets = <<>>
    /\ secrets = config_secrets
    /\ new_secrets = <<>>
    /\ updated_secrets = <<>>
    /\ secrets_to_delete = <<>>
    /\ idx = 1
    /\ calls = <<>>
    /\ printed = <<>>
    /\ reconciled = FALSE
    /\ fetch_failed = "none"
    /\ outcome = "running"
    /\ external = {}
    /\ viewer = "off"
    /\ selected_index = 0
    /\ app_state = "ListView"
    /\ confirmation_dialog = "None"
    /\ status_message = "None"
    /\ details = [tag |-> "unset"]

\* the run ends: Ok(()) / Err(..) returned from main or manage_secrets, or a panic
Finish(how) ==
    /\ pc' = "done"
    /\ outcome' = how

\* ------------------------------------------------------- the remote store
\* the lists the secrets endpoint may answer with when the store holds `names`
\* (every secret once, in some order)
Listings(names) ==
    {l \in SeqsUpTo({[name |-> n] : n \in names}, Cardinality(names)) :
        {l[i].name : i \in 1..Len(l)} = names}

\* What a request does to the store. A 2xx answer means it was applied, any
\* other status that it was not; when send() itself fails the request may or
\* may not have reached the server (applied).
StoreAfter(op, name, resp, applied) ==
    IF resp = "2xx" \/ (resp = "transport" /\ applied)
    THEN IF op = "PUT" THEN store \cup {name} ELSE store \ {name}
    ELSE store

\* the phase after categorization, and after the i-th upsert / delete
\* faulty variant: delete_secrets awaited before upsert_secrets
AfterCategorizeDeletesFirst(ups, dels) ==
    IF Len(dels) > 0 THEN "delete" ELSE IF Len(ups) > 0 THEN "upsert" ELSE "done"
AfterCategorize(ups, dels) ==
    IF Len(ups) > 0 THEN "upsert" ELSE IF Len(dels) > 0 THEN "delete" ELSE "done"
\* faulty variant: the run ends after the last upsert
AfterUpsertSkipsDeletes(i, ups, dels) ==
    IF i < Len(ups) THEN "upsert" ELSE "done"
AfterUpsert(i, ups, dels) ==
    IF i < Len(ups) THEN "upsert" ELSE IF Len(dels) > 0 THEN "delete" ELSE "done"
\* faulty variant: the run ends after the first delete
AfterDeleteOnlyFirst(i, dels) == "done"
AfterDelete(i, dels) ==
    IF i < Len(dels) THEN "delete" ELSE "done"

PutCall(name, value, key_id, resp) ==
    [op |-> "PUT", name |-> name, encrypted_value |-> value, key_id |-> key_id, resp |-> resp]
DeleteCall(name, resp) ==
    [op |-> "DELETE", name |-> name, encrypted_value |-> <<>>, key_id |-> "", resp |-> resp]


\* a failed GET carries no key and no list: one fixed body stands for it
NoKeyBody == CHOOSE c \in KeyCandidates : TRUE
NoListBody == CHOOSE l \in Listings(store) : TRUE

OutcomeAt(next) == IF next = "done" THEN "Ok" ELSE "running"

\* =================================================================== main
\* faulty variant: the status of the answer is not looked at
MainOnFetchIgnoreStatus(resp) == IF resp = "transport" THEN "Err" ELSE "continue"
\* what main does with the answer to a GET (main.rs 64-79, 91-109):
\* send().await? returns Err, a status that is not a success panics
MainOnFetch(resp) ==
    IF resp = "transport" THEN "Err" ELSE IF resp = "non2xx" THEN "Panic" ELSE "continue"

\* main.rs 57-79: GET .../public-key
MainFetchPublicKey ==
    /\ impl = "main" /\ pc = "fetch_key"
    /\ \E resp \in Responses, k \in KeyCandidates :
        /\ resp # "2xx" => k = NoKeyBody
        /\ fetch_failed' = IF resp # "2xx" THEN "public_key" ELSE fetch_failed
        /\ IF MainOnFetch(resp) = "continue"
           THEN /\ public_key' = IF resp = "2xx" THEN k ELSE NoKey
                /\ pc' = "decode_key"
                /\ UNCHANGED outcome
           ELSE /\ Finish(MainOnFetch(resp))
                /\ UNCHANGED public_key
    /\ UNCHANGED << external, viewer, selected_index, app_state,
                    confirmation_dialog, status_message, details >>
    /\ UNCHANGED << impl, config_secrets, rng, store, pk, existing_secrets,
                    secrets, new_secrets, updated_secrets, secrets_to_delete, idx,
                    calls, printed, reconciled >>

\* main.rs 81-82: decode the key, before the secrets are listed
MainDecodeKey ==
    /\ impl = "main" /\ pc = "decode_key"
    /\ LET r == decode_public_key(public_key.key)
       IN  IF r.tag = "Ok"
           THEN /\ pk' = r.pk
                /\ pc' = "fetch_existing"
                /\ UNCHANGED outcome
           ELSE /\ Finish(r.tag)
                /\ UNCHANGED pk
    /\ UNCHANGED << external, viewer, selected_index, app_state,
                    confirmation_dialog, status_message, details >>
    /\ UNCHANGED << impl, fetch_failed, config_secrets, rng, store, public_key,
                    existing_secrets, secrets, new_secrets, updated_secrets,
                    secrets_to_delete, idx, calls, printed, reconciled >>

\* main.rs 84-109: GET .../secrets
MainFetchExisting ==
    /\ impl = "main" /\ pc = "fetch_existing"
    /\ \E resp \in Responses, body \in Listings(store) :
        /\ resp # "2xx" => body = NoListBody
        /\ fetch_failed' = IF resp # "2xx" THEN "existing_secrets" ELSE fetch_failed
        /\ IF MainOnFetch(resp) = "continue"
           THEN /\ existing_secrets' = IF resp = "2xx" THEN body ELSE <<>>
                /\ pc' = "categorize"
                /\ UNCHANGED outcome
           ELSE /\ Finish(MainOnFetch(resp))
                /\ UNCHANGED existing_secrets
    /\ UNCHANGED << external, viewer, selected_index, app_state,
                    confirmation_dialog, status_message, details >>
    /\ UNCHANGED << impl, config_secrets, rng, store, public_key, pk,
                    secrets, new_secrets, updated_secrets, secrets_to_delete, idx,
                    calls, printed, reconciled >>

\* main.rs 111-149: the three vectors
MainCategorize ==
    /\ impl = "main" /\ pc = "categorize"
    /\ new_secrets' = MainNewSecrets(secrets, existing_secrets)
    /\ updated_secrets' = MainUpdatedSecrets(secrets, existing_secrets)
    /\ secrets_to_delete' = MainSecretsToDelete(secrets, existing_secrets)
    /\ reconciled' = TRUE
    /\ idx' = 1
    /\ pc' = AfterCategorize(UpsertOrder(new_secrets', updated_secrets'), secrets_to_delete')
    /\ outcome' = OutcomeAt(pc')
    /\ UNCHANGED << external, viewer, selected_index, app_state,
                    confirmation_dialog, status_message, details >>
    /\ UNCHANGED << impl, fetch_failed, config_secrets, rng, store, public_key, pk,
                    existing_secrets, secrets, calls, printed >>

\* what main does with the answer to a PUT (main.rs 166-189): Err from
\* send().await?, otherwise a line on stdout and on to the next secret
MainAfterPut(resp) == IF resp = "transport" THEN "return_err" ELSE "continue"
\* ... and with the answer to a DELETE (main.rs 200-216)
MainAfterDelete(resp) == IF resp = "transport" THEN "return_err" ELSE "continue"

\* main.rs 151-190: one iteration of the loop over new_secrets chained with
\* updated_secrets
MainUpsert ==
    /\ impl = "main" /\ pc = "upsert"
    /\ LET ups == UpsertOrder(new_secrets, updated_secrets)
           secret == ups[idx]
       IN  \E resp \in Responses, applied \in BOOLEAN :
            LET encrypted_value == EncryptedValue(secret.value, pk, rng)
            IN  /\ resp # "transport" => applied
                /\ rng' = NextRandom(rng)
                /\ calls' = Append(calls, PutCall(secret.name, encrypted_value,
                                                  public_key.key_id, resp))
                /\ store' = StoreAfter("PUT", secret.name, resp, applied)
                /\ IF MainAfterPut(resp) = "return_err"
                   THEN /\ Finish("Err")
                        /\ UNCHANGED << idx, printed >>
                   ELSE /\ printed' = Append(printed,
                              [kind |-> IF resp # "2xx" THEN "failed_upsert"
                                        ELSE IF InSecrets(secret.name, new_secrets)
                                             THEN "created" ELSE "updated",
                               name |-> secret.name])
                        /\ idx' = IF idx < Len(ups) THEN idx + 1 ELSE 1
                        /\ pc' = AfterUpsert(idx, ups, secrets_to_delete)
                        /\ outcome' = OutcomeAt(pc')
    /\ UNCHANGED << external, viewer, selected_index, app_state,
                    confirmation_dialog, status_message, details >>
    /\ UNCHANGED << impl, fetch_failed, config_secrets, public_key, pk,
                    existing_secrets, secrets, new_secrets, updated_secrets,
                    secrets_to_delete, reconciled >>

\* main.rs 192-217: one iteration of the loop over secrets_to_delete; after
\* the last one main returns Ok(())
MainDelete ==
    /\ impl = "main" /\ pc = "delete"
    /\ LET secret_name == secrets_to_delete[idx]
       IN  \E resp \in Responses, applied \in BOOLEAN :
            /\ resp # "transport" => applied
            /\ calls' = Append(calls, DeleteCall(secret_name, resp))
            /\ store' = StoreAfter("DELETE", secret_name, resp, applied)
            /\ IF MainAfterDelete(resp) = "return_err"
               THEN /\ Finish("Err")
                    /\ UNCHANGED << idx, printed >>
               ELSE /\ printed' = Append(printed,
                          [kind |-> IF resp = "2xx" THEN "deleted" ELSE "failed_delete",
                           name |-> secret_name])
                    /\ idx' = IF idx < Len(secrets_to_delete) THEN idx + 1 ELSE 1
                    /\ pc' = AfterDelete(idx, secrets_to_delete)
                    /\ outcome' = OutcomeAt(pc')
    /\ UNCHANGED << external, viewer, selected_index, app_state,
                    confirmation_dialog, status_message, details >>
    /\ UNCHANGED << impl, fetch_failed, config_secrets, rng, public_key, pk,
                    existing_secrets, secrets, new_secrets, updated_secrets,
                    secrets_to_delete, reconciled >>


\* ===================================================== GitHubClient results
\* get_public_key: Ok(body) on a success status, Err otherwise (send().await?
\* or error_for_status)
get_public_key(resp, body) ==
    IF resp = "2xx" THEN [tag |-> "Ok", value |-> body] ELSE [tag |-> "Err", value |-> NoKey]
\* get_existing_secrets: Ok(secret_list.secrets) or Err
get_existing_secrets(resp, body) ==
    IF resp = "2xx" THEN [tag |-> "Ok", value |-> body] ELSE [tag |-> "Err", value |-> <<>>]
\* upsert_secret / delete_secret: Ok(()) on a success status, Err otherwise
upsert_secret(resp) == IF resp = "2xx" THEN "Ok" ELSE "Err"
delete_secret(resp) == IF resp = "2xx" THEN "Ok" ELSE "Err"

\* ================================================================ manager
\* The caller that fetches the key and the snapshot and hands them to
\* SecretsManager::new: an Err of either fetch ends the run.
MgrFetchPublicKey ==
    /\ impl = "manager" /\ pc = "fetch_key"
    /\ \E resp \in Responses, k \in KeyCandidates :
        LET r == get_public_key(resp, k)
        IN  /\ resp # "2xx" => k = NoKeyBody
            /\ fetch_failed' = IF resp # "2xx" THEN "public_key" ELSE fetch_failed
            /\ IF r.tag = "Ok"
               THEN /\ public_key' = r.value
                    /\ pc' = "fetch_existing"
                    /\ UNCHANGED outcome
               ELSE /\ Finish("Err")
                    /\ UNCHANGED public_key
    /\ UNCHANGED << external, viewer, selected_index, app_state,
                    confirmation_dialog, status_message, details >>
    /\ UNCHANGED << impl, config_secrets, rng, store, pk, existing_secrets,
                    secrets, new_secrets, updated_secrets, secrets_to_delete, idx,
                    calls, printed, reconciled >>

MgrFetchExisting ==
    /\ impl = "manager" /\ pc = "fetch_existing"
    /\ \E resp \in Responses, body \in Listings(store) :
        LET r == get_existing_secrets(resp, body)
        IN  /\ resp # "2xx" => body = NoListBody
            /\ fetch_failed' = IF resp # "2xx" THEN "existing_secrets" ELSE fetch_failed
            /\ IF r.tag = "Ok"
               THEN /\ existing_secrets' = r.value
                    /\ pc' = "new"
                    /\ UNCHANGED outcome
               ELSE /\ Finish("Err")
                    /\ UNCHANGED existing_secrets
    /\ UNCHANGED << external, viewer, selected_index, app_state,
                    confirmation_dialog, status_message, details >>
    /\ UNCHANGED << impl, config_secrets, rng, store, public_key, pk,
                    secrets, new_secrets, updated_secrets, secrets_to_delete, idx,
                    calls, printed, reconciled >>

\* SecretsManager::new: stores its arguments and updates the statuses
SecretsManagerNew ==
    /\ impl = "manager" /\ pc = "new"
    /\ secrets' = update_secret_statuses(config_secrets, existing_secrets)
    /\ pc' = "manage"
    /\ UNCHANGED << external, viewer, selected_index, app_state,
                    confirmation_dialog, status_message, details >>
    /\ UNCHANGED << impl, fetch_failed, config_secrets, rng, store, public_key, pk,
                    existing_secrets, new_secrets, updated_secrets,
                    secrets_to_delete, idx, calls, printed, reconciled, outcome >>

\* manage_secrets up to its first await (secrets_manager.rs 100-105): the key
\* is decoded, then the secrets are categorized
ManageSecretsStart ==
    /\ impl = "manager" /\ pc = "manage"
    /\ LET r == decode_public_key(public_key.key)
           c == categorize_secrets(secrets)
       IN  IF r.tag = "Ok"
           THEN /\ pk' = r.pk
                /\ new_secrets' = c.new_secrets
                /\ updated_secrets' = c.updated_secrets
                /\ secrets_to_delete' = c.secrets_to_delete
                /\ reconciled' = TRUE
                /\ idx' = 1
                /\ pc' = AfterCategorize(UpsertOrder(new_secrets', updated_secrets'),
                                         secrets_to_delete')
                /\ outcome' = OutcomeAt(pc')
           ELSE /\ Finish(r.tag)
                /\ UNCHANGED << pk, new_secrets, updated_secrets, secrets_to_delete,
                                reconciled, idx >>
    /\ UNCHANGED << external, viewer, selected_index, app_state,
                    confirmation_dialog, status_message, details >>
    /\ UNCHANGED << impl, fetch_failed, config_secrets, rng, store, public_key,
                    existing_secrets, secrets, calls, printed >>

\* `.await?` on the client's result (secrets_manager.rs 182, 190)
Propagate(result) == IF result = "Err" THEN "return_err" ELSE "continue"

\* upsert_secrets (secrets_manager.rs 170-186): one iteration
MgrUpsert ==
    /\ impl = "manager" /\ pc = "upsert"
    /\ LET ups == UpsertOrder(new_secrets, updated_secrets)
           secret == ups[idx]
       IN  \E resp \in Responses, applied \in BOOLEAN :
            LET encrypted_value == EncryptedValue(secret.value, pk, rng)
            IN  /\ resp # "transport" => applied
                /\ rng' = NextRandom(rng)
                /\ calls' = Append(calls, PutCall(secret.name, encrypted_value,
                                                  public_key.key_id, resp))
                /\ store' = StoreAfter("PUT", secret.name, resp, applied)
                /\ IF Propagate(upsert_secret(resp)) = "return_err"
                   THEN /\ Finish("Err")
                        /\ UNCHANGED << idx, printed >>
                   ELSE /\ printed' = Append(printed,
                                             [kind |-> "updated", name |-> secret.name])
                        /\ idx' = IF idx < Len(ups) THEN idx + 1 ELSE 1
                        /\ pc' = AfterUpsert(idx, ups, secrets_to_delete)
                        /\ outcome' = OutcomeAt(pc')
    /\ UNCHANGED << external, viewer, selected_index, app_state,
                    confirmation_dialog, status_message, details >>
    /\ UNCHANGED << impl, fetch_failed, config_secrets, public_key, pk,
                    existing_secrets, secrets, new_secrets, updated_secrets,
                    secrets_to_delete, reconciled >>

\* delete_secrets (secrets_manager.rs 188-194): one iteration; after the last
\* one manage_secrets returns Ok(())
MgrDelete ==
    /\ impl = "manager" /\ pc = "delete"
    /\ LET secret_name == secrets_to_delete[idx]
       IN  \E resp \in Responses, applied \in BOOLEAN :
            /\ resp # "transport" => applied
            /\ calls' = Append(calls, DeleteCall(secret_name, resp))
            /\ store' = StoreAfter("DELETE", secret_name, resp, applied)
            /\ IF Propagate(delete_secret(resp)) = "return_err"
               THEN /\ Finish("Err")
                    /\ UNCHANGED << idx, printed >>
               ELSE /\ printed' = Append(printed,
                                         [kind |-> "deleted", name |-> secret_name])
                    /\ idx' = IF idx < Len(secrets_to_delete) THEN idx + 1 ELSE 1
                    /\ pc' = AfterDelete(idx, secrets_to_delete)
                    /\ outcome' = OutcomeAt(pc')
    /\ UNCHANGED << external, viewer, selected_index, app_state,
                    confirmation_dialog, status_message, details >>
    /\ UNCHANGED << impl, fetch_failed, config_secrets, rng, public_key, pk,
                    existing_secrets, secrets, new_secrets, updated_secrets,
                    secrets_to_delete, reconciled >>

Next ==
    \/ MainFetchPublicKey
    \/ MainDecodeKey
    \/ MainFetchExisting
    \/ MainCategorize
    \/ MainUpsert
    \/ MainDelete
    \/ MgrFetchPublicKey
    \/ MgrFetchExisting
    \/ SecretsManagerNew
    \/ ManageSecretsStart
    \/ MgrUpsert
    \/ MgrDelete

Spec == Init /\ [][Next]_vars

\* ------------------------------------------- reconciliation on its own
\* The categorization of both implementations applied to arbitrary lists,
\* lists with repeated names included: main's loops at "categorize", the
\* manager's constructor and the start of manage_secrets from "new".
ReconcileInit ==
    /\ impl \in {"main", "manager"}
    /\ config_secrets \in DesiredLists
    /\ existing_secrets \in ExistingLists
    /\ store = {existing_secrets[i].name : i \in 1..Len(existing_secrets)}
    /\ rng \in EphSeeds
    /\ pc = IF impl = "main" THEN "categorize" ELSE "new"
    /\ public_key = ValidKey
    /\ pk = IF impl = "main" THEN decode_public_key(ValidKey.key).pk ELSE <<>>
    /\ secrets = config_secrets
    /\ new_secrets = <<>>
    /\ updated_secrets = <<>>
    /\ secrets_to_delete = <<>>
    /\ idx = 1
    /\ calls = <<>>
    /\ printed = <<>>
    /\ reconciled = FALSE
    /\ fetch_failed = "none"
    /\ outcome = "running"
    /\ external = {}
    /\ viewer = "off"
    /\ selected_index = 0
    /\ app_state = "ListView"
    /\ confirmation_dialog = "None"
    /\ status_message = "None"
    /\ details = [tag |-> "unset"]

ReconcileNext ==
    \/ MainCategorize
    \/ SecretsManagerNew
    \/ ManageSecretsStart

SpecReconcile == ReconcileInit /\ [][ReconcileNext]_vars

\* ------------------------------------------------------------ type check
\* --------------------------------------------- a store with a second writer
\* Between the fetch of the snapshot and the delete loop somebody else removes
\* one secret of the snapshot from the store.
ExternalRemove ==
    /\ pc \in {"categorize", "new", "manage", "upsert"}
    /\ external = {}
    /\ \E j \in 1..Len(existing_secrets) :
         /\ existing_secrets[j].name \in store
         /\ store' = store \ {existing_secrets[j].name}
         /\ external' = {existing_secrets[j].name}
    /\ UNCHANGED << impl, config_secrets, rng, pc, public_key, pk,
                    existing_secrets, secrets, new_secrets, updated_secrets,
                    secrets_to_delete, idx, calls, printed, reconciled,
                    fetch_failed, outcome, viewer, selected_index, app_state,
                    confirmation_dialog, status_message, details >>

ExternalNext ==
    \/ Next
    \/ ExternalRemove

SpecExternal == Init /\ [][ExternalNext]_vars

\* ------------------------------------------------ the details of a secret
\* Existing secrets as the details view reads them: a name with the
\* created_at / updated_at texts of the listing.
StampedEntries ==
    {[name |-> n, created_at |-> t[1], updated_at |-> t[2]] :
        n \in Names, t \in {<< "2024-01-01", "2024-02-02" >>,
                            << "2024-03-03", "2024-04-04" >>}}
StampedLists == SeqsUpTo(StampedEntries, MaxExisting)

\* a caller of get_secret_details on the constructed manager
GetSecretDetails ==
    /\ impl = "manager" /\ pc = "manage"
    /\ \E index \in 0..(Len(secrets) + 1) :
         LET d == get_secret_details(secrets, existing_secrets, index)
         IN  /\ details' = d
             /\ IF d.tag = "Panic" THEN Finish("Panic")
                                   ELSE UNCHANGED << pc, outcome >>
    /\ UNCHANGED << impl, config_secrets, rng, store, public_key, pk,
                    existing_secrets, secrets, new_secrets, updated_secrets,
                    secrets_to_delete, idx, calls, printed, reconciled,
                    fetch_failed, external, viewer, selected_index, app_state,
                    confirmation_dialog, status_message >>

DetailsInit ==
    /\ impl = "manager"
    /\ config_secrets \in DesiredLists
    /\ existing_secrets \in StampedLists
    /\ store = {existing_secrets[i].name : i \in 1..Len(existing_secrets)}
    /\ rng \in EphSeeds
    /\ pc = "new"
    /\ public_key = ValidKey
    /\ pk = <<>>
    /\ secrets = config_secrets
    /\ new_secrets = <<>>
    /\ updated_secrets = <<>>
    /\ secrets_to_delete = <<>>
    /\ idx = 1
    /\ calls = <<>>
    /\ printed = <<>>
    /\ reconciled = FALSE
    /\ fetch_failed = "none"
    /\ outcome = "running"
    /\ external = {}
    /\ viewer = "off"
    /\ selected_index = 0
    /\ app_state = "ListView"
    /\ confirmation_dialog = "None"
    /\ status_message = "None"
    /\ details = [tag |-> "unset"]

DetailsNext ==
    \/ SecretsManagerNew
    \/ GetSecretDetails

SpecDetails == DetailsInit /\ [][DetailsNext]_vars

\* -------------------------------------------------- the terminal viewer
\* usize::saturating_sub
SaturatingSub(a, b) == IF a >= b THEN a - b ELSE 0

\* faulty variant: Down stops one position too late
move_selection_past_end(index, secrets_len, direction) ==
    IF direction = "Up" THEN SaturatingSub(index, 1)
    ELSE IF index < secrets_len THEN index + 1 ELSE index

\* Tui::move_selection: the new selected_index
move_selection(index, secrets_len, direction) ==
    IF direction = "Up" THEN SaturatingSub(index, 1)
    ELSE IF index < SaturatingSub(secrets_len, 1) THEN index + 1 ELSE index

\* Tui::toggle_view: the new app_state
toggle_view(state) == IF state = "ListView" THEN "DetailsView" ELSE "ListView"

\* the events of event::read() by the arm that matches them: "y" is
\* Char('y') | Char('Y'), "n" is Char('n') | Char('N'), "x" every other event
Keys == {"Up", "Down", "Enter", "q", "y", "n", "x"}

\* Tui::new on the constructed manager, and the entry into Tui::run
TuiNew ==
    /\ impl = "manager" /\ pc = "manage" /\ viewer = "off"
    /\ viewer' = "running"
    /\ selected_index' = 0
    /\ app_state' = "ListView"
    /\ status_message' = "None"
    /\ confirmation_dialog' = "None"
    /\ UNCHANGED << impl, config_secrets, rng, store, pc, public_key, pk,
                    existing_secrets, secrets, new_secrets, updated_secrets,
                    secrets_to_delete, idx, calls, printed, reconciled,
                    fetch_failed, outcome, external, details >>

\* One turn of the loop of Tui::run: draw the frame, read an event and handle
\* it, first by the view, then by the dialog if one is open, and drop a
\* status message that has expired.
TuiKey(key) ==
    /\ viewer = "running"
    /\ LET drawn == IF app_state = "DetailsView"
                    THEN get_secret_details(secrets, existing_secrets, selected_index)
                    ELSE details
           moved == IF app_state = "ListView" /\ key \in {"Up", "Down"}
                    THEN move_selection(selected_index, Len(secrets), key)
                    ELSE selected_index
           view == IF key = "Enter" THEN toggle_view(app_state) ELSE app_state
           message == IF key = "Enter" THEN "Some" ELSE status_message
           dialog == IF key = "q" THEN "Some" ELSE confirmation_dialog
       IN  /\ details' = drawn
           /\ IF drawn.tag = "Panic"
              THEN /\ Finish("Panic")
                   /\ viewer' = "returned"
                   /\ UNCHANGED << selected_index, app_state, status_message,
                                   confirmation_dialog >>
              ELSE /\ selected_index' = moved
                   /\ app_state' = view
                   /\ IF dialog = "Some" /\ key = "y"
                      THEN /\ confirmation_dialog' = "None"
                           /\ viewer' = "returned"
                           /\ status_message' = message
                      ELSE /\ confirmation_dialog' =
                                 IF dialog = "Some" /\ key = "n"
                                 THEN "None" ELSE dialog
                           /\ viewer' = "running"
                           /\ status_message' \in
                                 IF message = "Some" THEN {"Some", "None"}
                                                     ELSE {"None"}
                   /\ UNCHANGED << pc, outcome >>
    /\ UNCHANGED << impl, config_secrets, rng, store, public_key, pk,
                    existing_secrets, secrets, new_secrets, updated_secrets,
                    secrets_to_delete, idx, calls, printed, reconciled,
                    fetch_failed, external >>

TuiRun == \E key \in Keys : TuiKey(key)

\* the viewer on a manager constructed from any desired list and any existing
\* list, one timestamp per listed secret
ViewerInit ==
    /\ DetailsInit
    /\ \A r \in EphSeeds : rng <= r
    /\ \A j \in 1..Len(existing_secrets) :
          existing_secrets[j].created_at = "2024-01-01"

ViewerNext ==
    \/ SecretsManagerNew
    \/ TuiNew
    \/ TuiRun

SpecViewer == ViewerInit /\ [][ViewerNext]_vars

TypeOK ==
    /\ impl \in {"main", "manager"}
    /\ pc \in {"fetch_key", "decode_key", "fetch_existing", "categorize", "new",
               "manage", "upsert", "delete", "done"}
    /\ outcome \in {"running", "Ok", "Err", "Panic"}
    /\ store \subseteq Names
    /\ (pc = "done") = (outcome # "running")
    /\ external \subseteq Names
    /\ viewer \in {"off", "running", "returned"}
    /\ selected_index \in Nat
    /\ app_state \in {"ListView", "DetailsView"}
    /\ confirmation_dialog \in {"None", "Some"}
    /\ status_message \in {"None", "Some"}
    /\ details.tag \in {"unset", "None", "Some", "Panic"}


\* ================================================================= claims
DesiredNames == {config_secrets[i].name : i \in 1..Len(config_secrets)}
ExistingNames == {existing_secrets[i].name : i \in 1..Len(existing_secrets)}
CreateNames == {new_secrets[i].name : i \in 1..Len(new_secrets)}
UpdateNames == {updated_secrets[i].name : i \in 1..Len(updated_secrets)}
DeleteNames == {secrets_to_delete[i] : i \in 1..Len(secrets_to_delete)}

NoDuplicates(q) == \A i, j \in 1..Len(q) : q[i].name = q[j].name => i = j

\* C1: once the categories are computed, the create, update and delete
\* categories partition names(D) \cup names(E): their union is that name set
\* and no name is in two of them.
C1_CategoriesPartitionNames ==
    reconciled =>
        /\ CreateNames \cup UpdateNames \cup DeleteNames = DesiredNames \cup ExistingNames
        /\ CreateNames \cap UpdateNames = {}
        /\ CreateNames \cap DeleteNames = {}
        /\ UpdateNames \cap DeleteNames = {}

C1_Witness ==
    /\ reconciled
    /\ CreateNames # {} /\ UpdateNames # {} /\ DeleteNames # {}

\* C2: classification is by exact, case-sensitive name membership: a desired
\* name is a create iff it is absent from the existing list and an update iff
\* it is present; an existing name is a delete iff it is absent from the
\* desired list. For duplicate-free lists the counts are |D \ E|, |D \cap E|,
\* |E \ D|; with E empty there are only creates, with D empty only deletes,
\* with both empty nothing.
C2_ClassifiedByExactName ==
    reconciled =>
        /\ \A n \in DesiredNames :
            /\ (n \in CreateNames) <=> (n \notin ExistingNames)
            /\ (n \in UpdateNames) <=> (n \in ExistingNames)
        /\ \A n \in ExistingNames : (n \in DeleteNames) <=> (n \notin DesiredNames)
        /\ (NoDuplicates(config_secrets) /\ NoDuplicates(existing_secrets)) =>
            /\ Len(new_secrets) = Cardinality(DesiredNames \ ExistingNames)
            /\ Len(updated_secrets) = Cardinality(DesiredNames \cap ExistingNames)
            /\ Len(secrets_to_delete) = Cardinality(ExistingNames \ DesiredNames)
        /\ existing_secrets = <<>> =>
            /\ Len(new_secrets) = Len(config_secrets)
            /\ updated_secrets = <<>> /\ secrets_to_delete = <<>>
        /\ config_secrets = <<>> =>
            /\ new_secrets = <<>> /\ updated_secrets = <<>>
            /\ DeleteNames = ExistingNames

\* the desired "A" next to the existing "a": a create and a delete, no update
C2_Witness ==
    /\ reconciled
    /\ NamesOf(new_secrets) = <<"A">>
    /\ updated_secrets = <<>>
    /\ secrets_to_delete = <<"a">>


\* ------------------------------------------------------------ remote calls
PutIndexes == {i \in 1..Len(calls) : calls[i].op = "PUT"}
DeleteIndexes == {i \in 1..Len(calls) : calls[i].op = "DELETE"}
FailedIndexes == {i \in 1..Len(calls) : calls[i].resp # "2xx"}
PutNames == NamesOf(SelectSeq(calls, LAMBDA c : c.op = "PUT"))
NumActions == Len(new_secrets) + Len(updated_secrets) + Len(secrets_to_delete)

\* C3: no DELETE is sent before every PUT of the run has been sent: no PUT
\* follows a DELETE, and when a DELETE has been sent there are as many PUTs as
\* creates and updates.
C3_UpsertsBeforeDeletes ==
    /\ \A i \in DeleteIndexes, j \in PutIndexes : j < i
    /\ DeleteIndexes # {} =>
          Cardinality(PutIndexes) = Len(new_secrets) + Len(updated_secrets)

C3_Witness ==
    /\ pc = "done"
    /\ Cardinality(PutIndexes) = 2
    /\ DeleteIndexes # {}

\* the i-th call is on record as failed: main prints one line per answered
\* call, and a run that returns Err returns the error of its last call
RecordedAsFailed(i) ==
    \/ i <= Len(printed) /\ printed[i].kind \in {"failed_upsert", "failed_delete"}
    \/ i = Len(calls) /\ i > Len(printed) /\ outcome = "Err"

\* C4 (as claimed): when the run has ended after reconciliation, every create,
\* update and delete was attempted, whatever calls failed, and an error is
\* recorded for exactly the failed calls.
C4_EveryActionAttempted ==
    (pc = "done" /\ reconciled) =>
        /\ Len(calls) = NumActions
        /\ \A i \in 1..Len(calls) : (calls[i].resp # "2xx") <=> RecordedAsFailed(i)

\* what the text of each key the endpoint may return decodes to
DecodedKey == [k \in KeyCandidates |-> Base64Decode(k.key)]

\* the first byte of what a base64 text decodes to: of a sealed box, the
\* first byte of its ephemeral public key
FirstByte(text) == B64Value(text[1]) * 4 + B64Value(text[2]) \div 16

\* C5: every PUT carries the key_id of the fetched key and, as its value, the
\* base64 text of a sealed box (under the fetched key, decoded, with some
\* ephemeral key) of the value of a desired secret of that name; the value sent
\* is never a plaintext value, and a DELETE carries no value.
C5_OnlySealedValuesSent ==
    /\ PutIndexes # {} =>
          /\ public_key \in KeyCandidates
          /\ DecodedKey[public_key].ok
          /\ pk = DecodedKey[public_key].bytes
    /\ \A i \in 1..Len(calls) :
          IF calls[i].op = "PUT"
          THEN LET sent == calls[i].encrypted_value
               IN  /\ calls[i].key_id = public_key.key_id
                   /\ Len(sent) >= 4
                   /\ \E k \in 1..Len(config_secrets) :
                          /\ config_secrets[k].name = calls[i].name
                          /\ sent = Base64Encode(Seal(config_secrets[k].value, pk,
                                                      FirstByte(sent)))
                   /\ \A k \in 1..Len(config_secrets) : sent # config_secrets[k].value
          ELSE calls[i].encrypted_value = <<>>

C5_Witness ==
    /\ pc = "done" /\ outcome = "Ok"
    /\ Cardinality(PutIndexes) = 2
    /\ calls[1].encrypted_value # calls[2].encrypted_value

\* a rename in this run: O is listed and not desired, N is desired and not listed
Rename(O, N) ==
    /\ O \in ExistingNames \ DesiredNames
    /\ N \in DesiredNames \ ExistingNames
FailedPutOf(N) == \E i \in PutIndexes : calls[i].name = N /\ calls[i].resp # "2xx"

IsPrefix(p, q) == Len(p) <= Len(q) /\ p = SubSeq(q, 1, Len(p))
DesiredCreates == SelectSeq(config_secrets, LAMBDA s : s.name \notin ExistingNames)
DesiredUpdates == SelectSeq(config_secrets, LAMBDA s : s.name \in ExistingNames)

\* C7 (as claimed): the PUTs are sent in the order of the desired list,
\* creates and updates interleaved as they occur there.
C7_PutsInDesiredOrder ==
    reconciled => IsPrefix(PutNames, NamesOf(config_secrets))

\* C7 (amended): the PUTs of the creates are sent first, in the order of the
\* desired list, then the PUTs of the updates, in the order of the desired list.
C7_PutsCreatesThenUpdates ==
    reconciled => IsPrefix(PutNames, NamesOf(DesiredCreates) \o NamesOf(DesiredUpdates))

\* the desired list names an existing secret before a new one, and both were sent
C7_Witness ==
    /\ pc = "done"
    /\ Len(config_secrets) = 2
    /\ config_secrets[1].name \in ExistingNames
    /\ config_secrets[2].name \notin ExistingNames
    /\ Len(PutNames) = 2

\* the keys that are not base64 or do not decode to exactly 32 bytes
MalformedKeys ==
    {k \in KeyCandidates : ~DecodedKey[k].ok \/ Len(DecodedKey[k].bytes) # PUBLICKEYBYTES}

\* C8: with a malformed public key (not base64, or not exactly 32 bytes) the
\* run sends no PUT and no DELETE, never reaches the loops over them, and does
\* not end in success.
C8_MalformedKeyNoCalls ==
    /\ public_key \in KeyCandidates \cup {NoKey}
    /\ public_key \in MalformedKeys =>
          /\ calls = <<>>
          /\ pc \notin {"upsert", "delete"}
          /\ outcome # "Ok"

C8_Witness ==
    /\ pc = "done" /\ impl = "manager"
    /\ public_key \in MalformedKeys
    /\ public_key.key_id = "kid-16"
    /\ outcome = "Panic"
    /\ Len(secrets) = 2

\* C9: when the GET of the public key or of the existing secrets has failed,
\* the run has ended without success, nothing was categorized and no PUT or
\* DELETE was sent.
C9_FailedFetchAborts ==
    fetch_failed # "none" =>
        /\ pc = "done"
        /\ outcome \in {"Err", "Panic"}
        /\ ~reconciled
        /\ new_secrets = <<>> /\ updated_secrets = <<>> /\ secrets_to_delete = <<>>
        /\ calls = <<>>

C9_Witness ==
    /\ impl = "main"
    /\ fetch_failed = "existing_secrets"
    /\ outcome = "Panic"
    /\ config_secrets # <<>>

\* C10 (as claimed): a run in which a PUT or DELETE failed does not end in
\* success.
C10_FailedCallFailsRun ==
    (pc = "done" /\ FailedIndexes # {}) => outcome \in {"Err", "Panic"}

\* the failed calls of the run are DELETEs the store refused because the name
\* had been removed by somebody else
OnlyAbsentDeletesFailed ==
    /\ FailedIndexes # {}
    /\ \A i \in FailedIndexes : /\ calls[i].op = "DELETE"
                                /\ calls[i].resp = "non2xx"
                                /\ calls[i].name \in external

\* C11: a DELETE refused because its name is no longer in the store does not
\* abort the run: the run ends Ok and every delete action has been attempted.
C11_AbsentDeleteNotFatal ==
    (pc = "done" /\ reconciled /\ OnlyAbsentDeletesFailed) =>
        /\ outcome = "Ok"
        /\ Cardinality(DeleteIndexes) = Len(secrets_to_delete)

\* how often a name occurs in a list of secrets
Occurrences(list, name) ==
    Cardinality({i \in 1..Len(list) : list[i].name = name})

\* C12: a name that is absent from the existing list and occurs k >= 2 times
\* in the desired list gets k create actions, and by the end of the run k
\* PUTs have been sent for it.
C12_DuplicateCreatesAllSent ==
    (pc = "done" /\ reconciled) =>
        \A n \in DesiredNames \ ExistingNames :
            Occurrences(config_secrets, n) >= 2 =>
                /\ Occurrences(new_secrets, n) = Occurrences(config_secrets, n)
                /\ Occurrences(SelectSeq(calls, LAMBDA c : c.op = "PUT"), n)
                       = Occurrences(config_secrets, n)

\* the fetched key has gone through the preparation for sealing
\* (main.rs 81-82; decode_public_key at the start of manage_secrets)
KeyPrepared ==
    /\ public_key \in KeyCandidates
    /\ fetch_failed = "none" \/ impl = "main"
    /\ IF impl = "main" THEN pc \notin {"fetch_key", "decode_key"}
                        ELSE pc \in {"upsert", "delete", "done"}

\* C13: preparing key material that is base64 but not exactly 32 bytes long
\* ends in the error outcome, and preparing 32 bytes succeeds.
C13_WrongLengthKeyIsError ==
    (KeyPrepared /\ DecodedKey[public_key].ok) =>
        IF Len(DecodedKey[public_key].bytes) = PUBLICKEYBYTES
        THEN pk = DecodedKey[public_key].bytes
        ELSE outcome = "Err"

\* the write calls sent so far, as << op, name >>
CallOps == [i \in 1..Len(calls) |-> << calls[i].op, calls[i].name >>]

\* one PUT per create and update action, then one DELETE per delete action
ActionOps ==
    LET ups == UpsertOrder(new_secrets, updated_secrets)
    IN  [i \in 1..Len(ups) |-> << "PUT", ups[i].name >>]
        \o [i \in 1..Len(secrets_to_delete) |-> << "DELETE", secrets_to_delete[i] >>]

\* C14: when every call of a finished run has succeeded, the calls sent are
\* exactly one PUT per create and per update and one DELETE per delete, each
\* is reported as a success, and the run ends Ok.
C14_AllSucceedOneCallPerAction ==
    (pc = "done" /\ reconciled /\ FailedIndexes = {}) =>
        /\ outcome = "Ok"
        /\ CallOps = ActionOps
        /\ Len(printed) = Len(calls)
        /\ \A i \in 1..Len(printed) :
              /\ printed[i].name = calls[i].name
              /\ printed[i].kind \in {"created", "updated", "deleted"}

\* desired [A, B] against existing {B, a}: create A, update B, delete a, all sent
C14_Witness ==
    /\ pc = "done" /\ reconciled /\ FailedIndexes = {} /\ outcome = "Ok"
    /\ NamesOf(config_secrets) = << "A", "B" >>
    /\ ExistingNames = {"B", "a"}
    /\ CallOps = << << "PUT", "A" >>, << "PUT", "B" >>, << "DELETE", "a" >> >>

C15_WitnessBeyond ==
    /\ details.tag = "None"
    /\ details.index > Len(secrets)
    /\ Len(secrets) > 0

\* C16: when a run against an accurate snapshot has finished, every call of it
\* has succeeded and nobody else has written to the store, the names in the
\* store are the names of the desired list.
C16_Converges ==
    (pc = "done" /\ reconciled /\ FailedIndexes = {} /\ external = {}) =>
        store = DesiredNames

\* such a run that had to create and to delete
C16_Witness ==
    /\ pc = "done" /\ reconciled /\ FailedIndexes = {} /\ external = {}
    /\ store = DesiredNames
    /\ DesiredNames \ ExistingNames # {}
    /\ Cardinality(ExistingNames \ DesiredNames) = 2
    /\ Cardinality(DeleteIndexes) = 2

\* name and value of every entry, the status left aside
Plain(list) == [i \in 1..Len(list) |-> [name |-> list[i].name, value |-> list[i].value]]

\* C17: SecretsManager's categorization (update_secret_statuses, then
\* categorize_secrets) yields the creates, updates and deletes of main's
\* loops, one delete per entry of the existing list whose name is not desired.
C17_CategorizationsAgree ==
    (impl = "manager" /\ reconciled) =>
        /\ Plain(new_secrets)
             = Plain(MainNewSecrets(config_secrets, existing_secrets))
        /\ Plain(updated_secrets)
             = Plain(MainUpdatedSecrets(config_secrets, existing_secrets))
        /\ secrets_to_delete
             = MainSecretsToDelete(config_secrets, existing_secrets)

\* the selected index lies within the secret list
SelectionInList ==
    IF Len(secrets) = 0 THEN selected_index = 0
    ELSE selected_index \in 0..(Len(secrets) - 1)

\* C18: whatever keys the viewer has read, the selected index is 0 on an
\* empty list and otherwise between 0 and length-1; Up at index 0 and Down at
\* the last index leave it where it is.
C18_SelectionStaysInList ==
    /\ [](viewer # "off" => SelectionInList)
    /\ [][/\ (TuiKey("Up") /\ selected_index = 0) => selected_index' = 0
          /\ (TuiKey("Down") /\ selected_index + 1 >= Len(secrets))
                => selected_index' = selected_index]_vars

\* the selection has been moved down to the last entry of a list of three
C18_Witness ==
    /\ viewer = "running"
    /\ Len(secrets) = 3
    /\ selected_index = 2
    /\ app_state = "DetailsView"

====
